---- MODULE Spec2Model ----
(***************************************************************************)
(* Model of two pieces of the amplication client:                          *)
(*   - the EntityList component (Entity/EntityList.tsx): local state for    *)
(*     sort, search phrase and the "new entity" dialog, the query          *)
(*     variables derived from it, the polling effect and the rendering of  *)
(*     the query result;                                                   *)
(*   - the useGitSelected hook (github/.../hooks/useGitSelected.tsx).      *)
(*                                                                         *)
(* Nullable values (T | null | undefined) are sequences of length <= 1:    *)
(* None is null/undefined, Some(x) is the value x.  Free-text strings are  *)
(* sequences of characters, so "" is <<>>.                                 *)
(***************************************************************************)
EXTENDS FiniteSets, Integers, Sequences, TLC

None == <<>>
Some(x) == <<x>>

\* ---------------------------------------------------------------- bounds
MaxLen == 1          \* longest search phrase typed
MaxMounts == 2       \* mount/unmount cycles of the list view
MaxEntities == 2     \* longest entity list the backend returns
MaxCalls == 2        \* repository selections in a run of the hook

\* ------------------------------------------------------ program constants
NAME_FIELD == "displayName"
INITIAL_SORT_DATA == [field |-> None, order |-> None]
POLL_INTERVAL == 2000

\* names of the DataGrid columns (const fields)
fields == {"lockedByUserId", "displayName", "description", "versionNumber", "lastCommitAt"}

\* ------------------------------------------------------------ input sets
Chars == {"a", " "}
Phrases == UNION {[1..n -> Chars] : n \in 0..MaxLen}
SortOrders == {-1, 1}                 \* the data table reports 1, -1 or null
OrderInputs == {None} \cup {Some(o) : o \in SortOrders}
AppIds == {"app-1", "app-2"}
RepoNames == {"org/repo", "org/other"}
GitRepos == [name : {"repo"}, fullName : RepoNames]

Account == [firstName |-> Some("Ada"), lastName |-> Some("Byron")]
User == [account |-> Some(Account)]
Commit == [message |-> Some("initial"), createdAt |-> Some("2020-08-01"), user |-> Some(User)]
VersionNumbers == {1, 2}
EntityVersions == [versionNumber : VersionNumbers, commit : {None, Some(Commit)}]
Entities == [id : {"e1"}, displayName : {"Order"}, description : {"orders"},
             lockedByUser : {None, Some(User)},
             entityVersions : {<<v>> : v \in EntityVersions}]
EntityLists == UNION {[1..n -> Entities] : n \in 0..MaxEntities}
DataValues == {None} \cup {Some([entities |-> l]) : l \in EntityLists}
ErrorValues == {None, Some("Network error")}

VARIABLES
  applicationId,        \* Props.applicationId of the mounted list view
  mounted,              \* is the EntityList component mounted
  sortDir,              \* useState<sortData>
  searchPhrase,         \* useState<string>
  newEntity,            \* useState<boolean>
  clickClosure,         \* value of newEntity captured by handleNewEntityClick
  dirty,                \* a state update is batched and not yet rendered
  data, error,          \* result of useQuery
  view,                 \* what the last render returned
  queryFns,             \* identity of the startPolling/stopPolling functions
  effectDeps,           \* dependencies of the last run of the polling effect
  polling,              \* query client: None, or Some(interval) while polling
  startCalls,           \* intervals passed to startPolling, in call order
  stopCalls,            \* number of stopPolling calls
  mountCount, unmountCount,
  lastSort,             \* field of the most recent handleSortChange call
  gitProps,             \* Props of useGitSelected
  repoClosure,          \* appId captured by the memoized handleRepoSelected
  mutations,            \* enableSyncWithGithub calls and their outcome
  onCompletedCalls,     \* mutation indexes for which onCompleted ran
  consoleErrors,        \* mutation indexes logged with console.error
  callerErrors,         \* errors thrown to the caller of handleRepoSelected
  returned,             \* handleRepoSelected invocations that have returned
  lastOp                \* the operation that produced this state

listVars == <<applicationId, mounted, sortDir, searchPhrase, newEntity, clickClosure,
              dirty, data, error, view, queryFns, effectDeps, polling, startCalls,
              stopCalls, mountCount, unmountCount, lastSort>>
gitVars == <<gitProps, repoClosure, mutations, onCompletedCalls, consoleErrors,
             callerErrors, returned>>
vars == <<listVars, gitVars, lastOp>>

\* ------------------------------------------------- EntityList: derivations
SortOrderAsc == "Asc"
SortOrderDesc == "Desc"
QueryModeInsensitive == "Insensitive"

\* JavaScript truthiness of a nullable string: null and "" are falsy
Falsy(s) == s = None \/ s = Some("")

\* variant: the sort key is always the name column
OrderByNameOnly(sd) ==
  NAME_FIELD :> (IF sd.order = Some(1) THEN SortOrderDesc ELSE SortOrderAsc)

\* variables.orderBy: { [sortDir.field || NAME_FIELD]: order === 1 ? Desc : Asc }
OrderBy(sd) ==
  LET key == IF Falsy(sd.field) THEN NAME_FIELD ELSE sd.field[1]
      dir == IF sd.order = Some(1) THEN SortOrderDesc ELSE SortOrderAsc
  IN  key :> dir

\* variant: a blank phrase is treated like the empty phrase
WhereNameTrimmed(phrase) ==
  IF phrase # <<>> /\ \E k \in 1..Len(phrase) : phrase[k] # " "
    THEN Some([contains |-> phrase, mode |-> QueryModeInsensitive])
    ELSE None

\* variables.whereName
WhereName(phrase) ==
  IF phrase # <<>> THEN Some([contains |-> phrase, mode |-> QueryModeInsensitive])
                   ELSE None

QueryVariables(id, sd, phrase) ==
  [id |-> id, orderBy |-> OrderBy(sd), whereName |-> WhereName(phrase)]

\* the variables option handed to useQuery by a render of the current state
CurrentQuery == QueryVariables(applicationId, sortDir, searchPhrase)

\* x && <UserAvatar firstName={x.account?.firstName} .../>
Avatar(user) ==
  IF user = None THEN [firstName |-> None, lastName |-> None]
  ELSE LET acc == user[1].account
       IN  [firstName |-> IF acc = None THEN None ELSE acc[1].firstName,
            lastName |-> IF acc = None THEN None ELSE acc[1].lastName]

\* variant: the version label is rendered only next to a commit
RowLabelNeedsCommit(id, entity) ==
  LET latestVersion == entity.entityVersions[1]
  IN  [navigateUrl |-> <<id, "entities", entity.id>>,
       lockAvatar |-> IF entity.lockedByUser # None
                        THEN Some(Avatar(entity.lockedByUser)) ELSE None,
       name |-> entity.displayName,
       description |-> entity.description,
       versionLabel |-> IF latestVersion.commit # None
                          THEN <<"V", latestVersion.versionNumber>> ELSE <<>>,
       commitAvatar |-> IF latestVersion.commit # None
                          THEN Some(Avatar(latestVersion.commit[1].user)) ELSE None,
       commitMessage |-> IF latestVersion.commit # None
                           THEN latestVersion.commit[1].message ELSE None,
       commitCreatedAt |-> IF latestVersion.commit # None
                             THEN latestVersion.commit[1].createdAt ELSE None]

\* one <DataGridRow> of data.entities.map
Row(id, entity) ==
  LET latestVersion == entity.entityVersions[1]
  IN  [navigateUrl |-> <<id, "entities", entity.id>>,
       lockAvatar |-> IF entity.lockedByUser # None
                        THEN Some(Avatar(entity.lockedByUser)) ELSE None,
       name |-> entity.displayName,
       description |-> entity.description,
       versionLabel |-> <<"V", latestVersion.versionNumber>>,
       commitAvatar |-> IF latestVersion.commit # None
                          THEN Some(Avatar(latestVersion.commit[1].user)) ELSE None,
       commitMessage |-> IF latestVersion.commit # None
                           THEN latestVersion.commit[1].message ELSE None,
       commitCreatedAt |-> IF latestVersion.commit # None
                             THEN latestVersion.commit[1].createdAt ELSE None]

\* data?.entities.map(...)
Rows(id, d) ==
  IF d = None THEN None
  ELSE Some([i \in 1..Len(d[1].entities) |-> Row(id, d[1].entities[i])])

\* <Snackbar open={Boolean(error)} .../>
SnackbarOpen(e) == e # None

\* variant: an error replaces the rows
RenderViewErrorFirst(id, isOpen, d, e) ==
  [dialogIsOpen |-> isOpen,
   rows |-> IF e # None THEN None ELSE Rows(id, d),
   snackbarOpen |-> SnackbarOpen(e)]

\* the element tree returned by one render of EntityList
RenderView(id, isOpen, d, e) ==
  [dialogIsOpen |-> isOpen, rows |-> Rows(id, d), snackbarOpen |-> SnackbarOpen(e)]

NoView == [dialogIsOpen |-> FALSE, rows |-> None, snackbarOpen |-> FALSE]

\* variant: an effect without a dependency list runs after every render
EffectDepsAlways(prev, next) == TRUE

\* does useEffect re-run: some dependency changed identity since the last run
EffectDepsChanged(prev, next) == prev # next

\* ---------------------------------------------------- EntityList: actions
ListInit ==
  /\ applicationId \in {"app-1"}
  /\ mounted = FALSE
  /\ sortDir = INITIAL_SORT_DATA
  /\ searchPhrase = <<>>
  /\ newEntity = FALSE
  /\ clickClosure = FALSE
  /\ dirty = FALSE
  /\ data = None
  /\ error = None
  /\ view = NoView
  /\ queryFns = 0
  /\ effectDeps = 0
  /\ polling = None
  /\ startCalls = <<>>
  /\ stopCalls = 0
  /\ mountCount = 0
  /\ unmountCount = 0
  /\ lastSort = None

\* first render of a new component instance, then its effect
Mount ==
  /\ ~mounted
  /\ mountCount < MaxMounts
  /\ mounted' = TRUE
  /\ mountCount' = mountCount + 1
  /\ sortDir' = INITIAL_SORT_DATA
  /\ searchPhrase' = <<>>
  /\ newEntity' = FALSE
  /\ clickClosure' = FALSE
  /\ dirty' = FALSE
  /\ data' = None
  /\ error' = None
  /\ view' = RenderView(applicationId, FALSE, None, None)
  /\ queryFns' = mountCount + 1
  /\ effectDeps' = mountCount + 1
  /\ startCalls' = Append(startCalls, POLL_INTERVAL)
  /\ polling' = Some(POLL_INTERVAL)
  /\ lastSort' = None
  /\ lastOp' = [op |-> "mount", args |-> <<>>]
  /\ UNCHANGED <<applicationId, stopCalls, unmountCount, gitVars>>

\* the effect's cleanup runs, the instance and its state are dropped
Unmount ==
  /\ mounted
  /\ mounted' = FALSE
  /\ unmountCount' = unmountCount + 1
  /\ stopCalls' = stopCalls + 1
  /\ polling' = None
  /\ dirty' = FALSE
  /\ view' = NoView
  /\ lastOp' = [op |-> "unmount", args |-> <<>>]
  /\ UNCHANGED <<applicationId, sortDir, searchPhrase, newEntity, clickClosure, data,
                 error, queryFns, effectDeps, startCalls, mountCount, lastSort, gitVars>>

SortState(fieldName, order) ==
  [field |-> Some(fieldName), order |-> IF order = None THEN Some(1) ELSE order]

handleSortChange(fieldName, order) ==
  /\ mounted
  /\ sortDir' = SortState(fieldName, order)
  /\ dirty' = TRUE
  /\ lastSort' = Some(fieldName)
  /\ lastOp' = [op |-> "setSort", args |-> <<fieldName, order>>]
  /\ UNCHANGED <<applicationId, mounted, searchPhrase, newEntity, clickClosure, data,
                 error, view, queryFns, effectDeps, polling, startCalls, stopCalls,
                 mountCount, unmountCount, gitVars>>

handleSearchChange(value) ==
  /\ mounted
  /\ searchPhrase' = value
  /\ dirty' = TRUE
  /\ lastOp' = [op |-> "setSearch", args |-> <<value>>]
  /\ UNCHANGED <<applicationId, mounted, sortDir, newEntity, clickClosure, data, error,
                 view, queryFns, effectDeps, polling, startCalls, stopCalls, mountCount,
                 unmountCount, lastSort, gitVars>>

\* setNewEntity(!newEntity), newEntity being the value of the render that
\* created this callback
Toggled(captured) == ~captured

handleNewEntityClick ==
  /\ mounted
  /\ newEntity' = Toggled(clickClosure)
  /\ dirty' = TRUE
  /\ lastOp' = [op |-> "toggle", args |-> <<newEntity>>]
  /\ UNCHANGED <<applicationId, mounted, sortDir, searchPhrase, clickClosure, data,
                 error, view, queryFns, effectDeps, polling, startCalls, stopCalls,
                 mountCount, unmountCount, lastSort, gitVars>>

\* re-render after batched state updates: callbacks are re-created, the
\* element tree is rebuilt, the effect re-runs if its dependencies changed
Render ==
  /\ mounted
  /\ dirty
  /\ dirty' = FALSE
  /\ clickClosure' = newEntity
  /\ view' = RenderView(applicationId, newEntity, data, error)
  /\ IF EffectDepsChanged(effectDeps, queryFns)
       THEN /\ stopCalls' = stopCalls + 1
            /\ startCalls' = Append(startCalls, POLL_INTERVAL)
            /\ polling' = Some(POLL_INTERVAL)
            /\ effectDeps' = queryFns
       ELSE UNCHANGED <<stopCalls, startCalls, polling, effectDeps>>
  /\ lastOp' = [op |-> "render", args |-> <<>>]
  /\ UNCHANGED <<applicationId, mounted, sortDir, searchPhrase, newEntity, data, error,
                 queryFns, mountCount, unmountCount, lastSort, gitVars>>

\* the query client delivers a result; outside an event handler the update
\* is rendered synchronously
QueryResult(d, e) ==
  /\ mounted
  /\ ~dirty
  /\ data' = d
  /\ error' = e
  /\ view' = RenderView(applicationId, newEntity, d, e)
  /\ lastOp' = [op |-> "result", args |-> <<>>]
  /\ UNCHANGED <<applicationId, mounted, sortDir, searchPhrase, newEntity, clickClosure,
                 dirty, queryFns, effectDeps, polling, startCalls, stopCalls, mountCount,
                 unmountCount, lastSort, gitVars>>

\* --------------------------------------------------- useGitSelected hook
\* identity of the mutate function returned by useMutation (stable)
enableSyncWithGithub == "mutate"

\* dependency list of the useCallback around handleRepoSelected
CallbackDeps(appId) == <<enableSyncWithGithub, appId>>

\* variant: the dependency list names the mutate function only
CallbackDepsMutateOnly(prev, next) == prev[1] # next[1]

\* useCallback: a new callback is created when a dependency changed
CallbackDepsChanged(prev, next) == prev # next

\* variables of the enableSyncWithGithub call made by the callback
MutationVariables(repo, appId) ==
  [githubRepo |-> repo.fullName, githubBranch |-> None, appId |-> appId]

\* variant: no catch handler, the rejection is not logged
OnRejectedUnhandled(i) == [logged |-> <<>>, thrown |-> 0]

\* .catch(console.error): what happens to a rejected mutation promise
OnRejected(i) == [logged |-> <<i>>, thrown |-> 0]

GitInit ==
  /\ gitProps = [appId |-> "app-1", onCompleted |-> FALSE]
  /\ repoClosure = [appId |-> gitProps.appId, deps |-> CallbackDeps(gitProps.appId)]
  /\ mutations = <<>>
  /\ onCompletedCalls = <<>>
  /\ consoleErrors = <<>>
  /\ callerErrors = 0
  /\ returned = 0

\* the owning component renders the hook with (possibly new) props
HookRender(appId, hasOnCompleted) ==
  /\ gitProps' = [appId |-> appId, onCompleted |-> hasOnCompleted]
  /\ gitProps' # gitProps
  /\ repoClosure' = IF CallbackDepsChanged(repoClosure.deps, CallbackDeps(appId))
                      THEN [appId |-> appId, deps |-> CallbackDeps(appId)]
                      ELSE repoClosure
  /\ lastOp' = [op |-> "hookRender", args |-> <<>>]
  /\ UNCHANGED <<listVars, mutations, onCompletedCalls, consoleErrors, callerErrors,
                 returned>>

\* starts the mutation and returns; the promise settles later
handleRepoSelected(repo) ==
  /\ Len(mutations) < MaxCalls
  /\ mutations' = Append(mutations,
                         [variables |-> MutationVariables(repo, repoClosure.appId),
                          status |-> "pending", hadCallback |-> FALSE])
  /\ returned' = returned + 1
  /\ lastOp' = [op |-> "select", args |-> <<repo>>]
  /\ UNCHANGED <<listVars, gitProps, repoClosure, onCompletedCalls, consoleErrors,
                 callerErrors>>

\* the mutation succeeds: useMutation calls options.onCompleted when given
MutationCompleted(i) ==
  /\ mutations[i].status = "pending"
  /\ mutations' = [mutations EXCEPT ![i].status = "completed",
                                    ![i].hadCallback = gitProps.onCompleted]
  /\ onCompletedCalls' = IF gitProps.onCompleted THEN Append(onCompletedCalls, i)
                                                 ELSE onCompletedCalls
  /\ lastOp' = [op |-> "completed", args |-> <<i>>]
  /\ UNCHANGED <<listVars, gitProps, repoClosure, consoleErrors, callerErrors, returned>>

\* the mutation fails: the promise rejects and the catch handler runs
MutationFailed(i) ==
  /\ mutations[i].status = "pending"
  /\ mutations' = [mutations EXCEPT ![i].status = "failed"]
  /\ consoleErrors' = consoleErrors \o OnRejected(i).logged
  /\ callerErrors' = callerErrors + OnRejected(i).thrown
  /\ lastOp' = [op |-> "failed", args |-> <<i>>]
  /\ UNCHANGED <<listVars, gitProps, repoClosure, onCompletedCalls, returned>>

Init ==
  /\ ListInit
  /\ GitInit
  /\ lastOp = [op |-> "init", args |-> <<>>]

Next ==
  \/ Mount
  \/ Unmount
  \/ \E f \in fields, o \in OrderInputs : handleSortChange(f, o)
  \/ \E p \in Phrases : handleSearchChange(p)
  \/ handleNewEntityClick
  \/ Render

Spec == Init /\ [][Next]_vars

NextRender ==
  \/ Mount
  \/ Unmount
  \/ \E d \in DataValues, e \in ErrorValues : QueryResult(d, e)

SpecRender == Init /\ [][NextRender]_vars

NextGit ==
  \/ \E a \in AppIds, c \in BOOLEAN : HookRender(a, c)
  \/ \E r \in GitRepos : handleRepoSelected(r)
  \/ \E i \in 1..Len(mutations) : MutationCompleted(i)
  \/ \E i \in 1..Len(mutations) : MutationFailed(i)

SpecGit == Init /\ [][NextGit]_vars

\* =================================================================== claims
Indexes(seq, x) == {k \in 1..Len(seq) : seq[k] = x}

\* C1: after handleSortChange(field, null) the derived orderBy orders by
\* that field in ascending direction, the direction the initial state gives.
C1_NullDirectionIsAscending ==
  (lastOp.op = "setSort" /\ lastOp.args[2] = None) =>
     /\ OrderBy(sortDir) = (lastOp.args[1] :> SortOrderAsc)
     /\ OrderBy(sortDir)[lastOp.args[1]] = OrderBy(INITIAL_SORT_DATA)[NAME_FIELD]

\* C2: in every state the derived orderBy has exactly one key: the field of
\* the most recent handleSortChange call, or displayName if there was none.
C2_SingleSortKey ==
  /\ Cardinality(DOMAIN OrderBy(sortDir)) = 1
  /\ DOMAIN OrderBy(sortDir) = {IF lastSort = None THEN NAME_FIELD ELSE lastSort[1]}
  /\ DOMAIN CurrentQuery.orderBy
       = DOMAIN OrderBy(sortDir)

C2_Witness ==
  /\ mounted
  /\ lastSort = Some("description")
  /\ DOMAIN OrderBy(sortDir) = {"description"}
  /\ searchPhrase # <<>>
  /\ newEntity

\* C3: handleSearchChange stores the phrase verbatim; the name filter is
\* absent exactly when the stored phrase is empty, and otherwise is a
\* case-insensitive "contains" filter on exactly that phrase.
C3_SearchFilter ==
  LET w == CurrentQuery.whereName
  IN  /\ lastOp.op = "setSearch" => searchPhrase = lastOp.args[1]
      /\ (w = None) <=> (searchPhrase = <<>>)
      /\ searchPhrase # <<>> =>
           w = Some([contains |-> searchPhrase, mode |-> QueryModeInsensitive])

C3_Witness ==
  /\ lastOp.op = "setSearch"
  /\ searchPhrase = <<" ">>
  /\ WhereName(searchPhrase) = Some([contains |-> <<" ">>, mode |-> QueryModeInsensitive])

\* C4: every mount calls startPolling once with 2000 and every unmount
\* calls stopPolling once; polling is active exactly while mounted.
C4_PollingPaired ==
  /\ Len(startCalls) = mountCount
  /\ \A k \in 1..Len(startCalls) : startCalls[k] = 2000
  /\ stopCalls = unmountCount
  /\ mounted <=> (polling = Some(2000))
  /\ ~mounted <=> (polling = None)
  /\ Len(startCalls) - stopCalls = IF mounted THEN 1 ELSE 0

C4_Witness ==
  /\ ~mounted
  /\ mountCount = 2
  /\ unmountCount = 2
  /\ startCalls = <<2000, 2000>>
  /\ stopCalls = 2
  /\ polling = None

\* C5: two successive handleNewEntityClick invocations leave the dialog flag
\* at the value it had before the first one, re-render in between or not.
C5_ToggleTwiceRestores ==
  [][(lastOp.op = "toggle" /\ lastOp'.op = "toggle") => newEntity' = lastOp.args[1]]_vars

\* C6: handleRepoSelected(r) invokes the mutation exactly once, with
\* githubRepo = r.fullName, githubBranch = null, appId = the current props' id.
C6_MutationVariables ==
  [][returned' # returned =>
       /\ lastOp'.op = "select"
       /\ mutations' = Append(mutations,
            [variables |-> [githubRepo |-> lastOp'.args[1].fullName,
                            githubBranch |-> None,
                            appId |-> gitProps.appId],
             status |-> "pending", hadCallback |-> FALSE])]_vars

C6_Witness ==
  /\ lastOp.op = "select"
  /\ Len(mutations) = 2
  /\ mutations[1].variables.appId = "app-1"
  /\ mutations[2].variables =
       [githubRepo |-> "org/repo", githubBranch |-> None, appId |-> "app-2"]
  /\ gitProps.appId = "app-2"

\* C7: onCompleted runs for a mutation exactly when it succeeded and a
\* callback was given; a failure is logged once and is never thrown to the
\* caller; the handler has returned for every call, settled or not.
C7_FireAndForget ==
  /\ callerErrors = 0
  /\ returned = Len(mutations)
  /\ \A i \in 1..Len(mutations) :
       /\ Cardinality(Indexes(consoleErrors, i))
            = IF mutations[i].status = "failed" THEN 1 ELSE 0
       /\ Cardinality(Indexes(onCompletedCalls, i))
            = IF mutations[i].status = "completed" /\ mutations[i].hadCallback
                THEN 1 ELSE 0

C7_Witness ==
  /\ Len(mutations) = 2
  /\ returned = 2
  /\ mutations[1].status = "failed"
  /\ mutations[2].status = "completed"
  /\ consoleErrors = <<1>>
  /\ onCompletedCalls = <<2>>
  /\ callerErrors = 0

\* C8: the notification is open exactly when the query result has an error,
\* and whenever data is present one row per entity is rendered, error or not.
C8_ErrorDoesNotHideData ==
  (mounted /\ ~dirty) =>
     /\ view.snackbarOpen <=> (error # None)
     /\ data # None =>
          /\ view.rows # None
          /\ Len(view.rows[1]) = Len(data[1].entities)

C8_Witness ==
  /\ mounted
  /\ error # None
  /\ data # None
  /\ Len(data[1].entities) = 2
  /\ view.snackbarOpen
  /\ view.rows # None
  /\ Len(view.rows[1]) = 2

\* C9: one row per entity; the lock avatar is present exactly when the entity
\* has a lock owner, the commit avatar, message and timestamp exactly when
\* the latest version has a commit, and the V{versionNumber} label always.
C9_OptionalFields ==
  (mounted /\ ~dirty /\ data # None) =>
     /\ view.rows # None
     /\ DOMAIN view.rows[1] = DOMAIN data[1].entities
     /\ \A k \in DOMAIN data[1].entities :
          LET e == data[1].entities[k]
              r == view.rows[1][k]
              hasCommit == e.entityVersions[1].commit # None
          IN  /\ (r.lockAvatar # None) <=> (e.lockedByUser # None)
              /\ (r.commitAvatar # None) <=> hasCommit
              /\ (r.commitMessage # None) <=> hasCommit
              /\ (r.commitCreatedAt # None) <=> hasCommit
              /\ r.versionLabel = <<"V", e.entityVersions[1].versionNumber>>

C9_Witness ==
  /\ mounted
  /\ data # None
  /\ view.rows # None
  /\ \E k \in DOMAIN view.rows[1] :
       /\ data[1].entities[k].lockedByUser = None
       /\ data[1].entities[k].entityVersions[1].commit = None
       /\ view.rows[1][k].lockAvatar = None
       /\ view.rows[1][k].commitAvatar = None
       /\ view.rows[1][k].commitMessage = None
       /\ view.rows[1][k].versionLabel = <<"V", 2>>
  /\ \E k \in DOMAIN view.rows[1] :
       /\ view.rows[1][k].lockAvatar # None
       /\ view.rows[1][k].commitMessage = Some("initial")

\* C10: while the view stays mounted no sort, search or dialog operation
\* calls startPolling or stopPolling; a sort changes only orderBy, a search
\* only the name filter, a dialog toggle no query variable.
C10_PollingIndependent ==
  [][(mounted /\ mounted') =>
       /\ startCalls' = startCalls
       /\ stopCalls' = stopCalls
       /\ polling' = polling
       /\ polling = Some(POLL_INTERVAL)
       /\ lastOp'.op = "toggle" => CurrentQuery' = CurrentQuery
       /\ lastOp'.op = "render" => CurrentQuery' = CurrentQuery
       /\ lastOp'.op = "setSort" =>
            (CurrentQuery'.whereName = CurrentQuery.whereName
               /\ CurrentQuery'.id = CurrentQuery.id)
       /\ lastOp'.op = "setSearch" =>
            (CurrentQuery'.orderBy = CurrentQuery.orderBy
               /\ CurrentQuery'.id = CurrentQuery.id)]_vars

C10_Witness ==
  /\ mounted
  /\ ~dirty
  /\ lastSort # None
  /\ searchPhrase # <<>>
  /\ view.dialogIsOpen
  /\ startCalls = <<POLL_INTERVAL>>
  /\ stopCalls = 0
  /\ polling = Some(POLL_INTERVAL)
====
